---- MODULE Spec2Model ----
(***************************************************************************)
(* A model of the AI code modifier: the patch engine (applyChanges), the   *)
(* version store, the session state of App and the GitHub service.         *)
(*                                                                         *)
(* Strings are sequences of one-character strings, so that substring       *)
(* search, String.prototype.replace and the regular expression of the      *)
(* fallback are computed and not assumed.                                  *)
(***************************************************************************)
EXTENDS Integers, Sequences, FiniteSets, TLC

VARIABLES
    originalFiles,  \* applyChanges: the File Set passed in
    plan,           \* applyChanges: the ModificationPlan passed in
    finalFiles,     \* applyChanges: the array returned
    pc,             \* "ready" before the call, "done" after it
    files,          \* App: the working File Set
    modifiedResult, \* App: <<>> (null) or <<the staged result>>
    history,        \* App: the Session History, most recent first
    isLoading,      \* App: the loading flag
    isStreamingJson, \* App: the streaming view is open
    error,          \* App: "" (null) or the error shown
    successMessage, \* App: "" (null) or the success message shown
    savedVersions,  \* App: the versions listed
    isRepoFetched,  \* App: GitHub mode
    isGithubLoading, \* App: a fetch of a repository is running
    generations,    \* the calls of handleGenerateOrModify awaiting their stream
    commits,        \* the calls of handleApproveClick awaiting the commit
    uploads,        \* the calls of handleFileUpload reading their files
    localStorage,   \* window.localStorage: the value stored under each key
    lastSave,       \* the value the last call of saveCodeVersion returned
    github,         \* the repository: its objects and its branch reference
    commitCall,     \* commitChangesToRepo: the position and locals of a call
    tree,           \* what buildFileTree made of the files at the last render
    lastHandler     \* the handler that took the last step

patchVars == <<originalFiles, plan, finalFiles, pc>>

commitVars == <<github, commitCall>>

appVars == <<files, modifiedResult, history, isLoading, isStreamingJson, error,
             successMessage, savedVersions, isRepoFetched, isGithubLoading,
             generations, commits, uploads, localStorage, lastSave,
             github, commitCall, tree, lastHandler>>

vars == <<originalFiles, plan, finalFiles, pc, files, modifiedResult, history,
          isLoading, isStreamingJson, error, successMessage, savedVersions,
          isRepoFetched, isGithubLoading, generations, commits, uploads,
          localStorage, lastSave, github, commitCall, tree, lastHandler>>

-----------------------------------------------------------------------------
(* Bounds of the model.                                                    *)

MaxContent == 3     \* longest file content of the anchor specification
MaxAnchor == 1      \* longest before / after of the anchor specification
MaxCode == 2        \* longest codeToDelete of the anchor specification
MaxNew == 2         \* longest newCode of the anchor specification

Alphabet == {"a", "$", "&"}

StrUpTo(A, n) == UNION {[1..k -> A] : k \in 0..n}

-----------------------------------------------------------------------------
(* JavaScript strings.                                                     *)

\* String.prototype.includes
Includes(s, t) ==
    \E i \in 0..(Len(s) - Len(t)) : SubSeq(s, i + 1, i + Len(t)) = t

\* String.prototype.indexOf: the first position (from 0) of t in s, or -1
IndexOf(s, t) ==
    IF Includes(s, t)
    THEN CHOOSE i \in 0..(Len(s) - Len(t)) :
            /\ SubSeq(s, i + 1, i + Len(t)) = t
            /\ \A j \in 0..(i - 1) : SubSeq(s, j + 1, j + Len(t)) # t
    ELSE -1

StartsWith(s, t) == Len(s) >= Len(t) /\ SubSeq(s, 1, Len(t)) = t

EndsWith(s, t) ==
    Len(s) >= Len(t) /\ SubSeq(s, Len(s) - Len(t) + 1, Len(s)) = t

\* The replacement text of String.prototype.replace for a string pattern:
\* "$$" is "$", "$&" the matched text, "$`" the text before the match and
\* "$'" the text after it; every other "$" stands for itself (a string
\* pattern has no capture groups).
RECURSIVE GetSubstitution(_, _, _, _)
GetSubstitution(matched, str, position, replacement) ==
    IF replacement = <<>> THEN <<>>
    ELSE IF Head(replacement) = "$" /\ Len(replacement) >= 2
    THEN LET c == replacement[2]
             rest == SubSeq(replacement, 3, Len(replacement))
         IN  CASE c = "$" ->
                    <<"$">> \o GetSubstitution(matched, str, position, rest)
               [] c = "&" ->
                    matched \o GetSubstitution(matched, str, position, rest)
               [] c = "`" ->
                    SubSeq(str, 1, position)
                        \o GetSubstitution(matched, str, position, rest)
               [] c = "'" ->
                    SubSeq(str, position + Len(matched) + 1, Len(str))
                        \o GetSubstitution(matched, str, position, rest)
               [] OTHER ->
                    <<"$">> \o GetSubstitution(matched, str, position,
                                               Tail(replacement))
    ELSE <<Head(replacement)>>
            \o GetSubstitution(matched, str, position, Tail(replacement))

\* String.prototype.replace(pattern: string, replacement: string): the first
\* occurrence of pattern is replaced by the expanded replacement.
StringReplace(s, pattern, replacement) ==
    LET pos == IndexOf(s, pattern)
    IN  IF pos = -1 THEN s
        ELSE SubSeq(s, 1, pos)
                \o GetSubstitution(pattern, s, pos, replacement)
                \o SubSeq(s, pos + Len(pattern) + 1, Len(s))

-----------------------------------------------------------------------------
(* The regular expression of the fallback.                                 *)

RegExpSpecial ==
    {".", "*", "+", "?", "^", "$", "{", "}", "(", ")", "|", "[", "]", "\\"}

\* escapeRegExp: every special character gets a backslash before it
RECURSIVE escapeRegExp(_)
escapeRegExp(string) ==
    IF string = <<>> THEN <<>>
    ELSE (IF Head(string) \in RegExpSpecial
          THEN <<"\\", Head(string)>>
          ELSE <<Head(string)>>) \o escapeRegExp(Tail(string))

\* new RegExp(source): a backslash makes the next character a literal, a bare
\* "$" asserts the end of the input, any other character of the alphabet is
\* a literal.
RECURSIVE RegExpParse(_)
RegExpParse(source) ==
    IF source = <<>> THEN <<>>
    ELSE IF Head(source) = "\\" /\ Len(source) >= 2
    THEN <<[kind |-> "lit", ch |-> source[2]]>>
            \o RegExpParse(SubSeq(source, 3, Len(source)))
    ELSE IF Head(source) = "$"
    THEN <<[kind |-> "end", ch |-> ""]>> \o RegExpParse(Tail(source))
    ELSE <<[kind |-> "lit", ch |-> Head(source)]>> \o RegExpParse(Tail(source))

\* The position after a match of re that starts at position i of s, or -1
RECURSIVE RegExpMatchAt(_, _, _)
RegExpMatchAt(re, s, i) ==
    IF re = <<>> THEN i
    ELSE IF Head(re).kind = "end"
    THEN (IF i = Len(s) THEN RegExpMatchAt(Tail(re), s, i) ELSE -1)
    ELSE IF i < Len(s) /\ s[i + 1] = Head(re).ch
    THEN RegExpMatchAt(Tail(re), s, i + 1)
    ELSE -1

\* (s.match(re with flag g) || []).length: the matches are searched from
\* lastIndex on, each after the end of the one before (an empty match moves
\* lastIndex one further).
RECURSIVE RegExpMatchCount(_, _, _)
RegExpMatchCount(re, s, lastIndex) ==
    LET found == {i \in lastIndex..Len(s) : RegExpMatchAt(re, s, i) # -1}
    IN  IF found = {} THEN 0
        ELSE LET i == CHOOSE x \in found : \A y \in found : x <= y
                 e == RegExpMatchAt(re, s, i)
             IN  1 + RegExpMatchCount(re, s, IF e = i THEN i + 1 ELSE e)

\* The occurrences counted at codeModifier.ts:47
Occurrences(currentCode, codeToDelete) ==
    IF codeToDelete # <<>>
    THEN RegExpMatchCount(RegExpParse(escapeRegExp(codeToDelete)), currentCode, 0)
    ELSE 0

-----------------------------------------------------------------------------
(* MIME types are a sequence of two parts: "image/" and "png".             *)

TextPlain == <<"text/", "plain">>
TextCss == <<"text/", "css">>
TextHtml == <<"text/", "html">>
AppJavascript == <<"application/", "javascript">>
AppTypescript == <<"application/", "typescript">>
AppJson == <<"application/", "json">>
AppOctetStream == <<"application/", "octet-stream">>
ImagePng == <<"image/", "png">>
ImageJpeg == <<"image/", "jpeg">>
ImageGif == <<"image/", "gif">>
ImageWebp == <<"image/", "webp">>
ImageSvg == <<"image/", "svg+xml">>

\* fileData.type.startsWith('image/')
IsImageType(type) == StartsWith(type, <<"image/">>)

-----------------------------------------------------------------------------
(* finalFilesMap: a Map keeps its keys in the order of their first         *)
(* insertion; it is a sequence of entries [name, content, type].           *)

MapHas(map, key) == \E i \in 1..Len(map) : map[i].name = key

MapGet(map, key) == map[CHOOSE i \in 1..Len(map) : map[i].name = key]

\* Map.prototype.set: an existing key keeps its place, a new key goes last
MapSet(map, key, content, type) ==
    LET entry == [name |-> key, content |-> content, type |-> type]
    IN  IF MapHas(map, key)
        THEN [i \in 1..Len(map) |-> IF map[i].name = key THEN entry ELSE map[i]]
        ELSE Append(map, entry)

\* Map.prototype.delete
\* MapDelete dropping the oldest entry when the key is not in the map
MapDeleteOrFirst(map, key) ==
    IF MapHas(map, key) \/ map = <<>>
    THEN SelectSeq(map, LAMBDA e : e.name # key)
    ELSE Tail(map)

MapDelete(map, key) == SelectSeq(map, LAMBDA e : e.name # key)

-----------------------------------------------------------------------------
(* applyChanges                                                            *)

\* 'newCode' in op
IsModification(op) == "newCode" \in DOMAIN op

\* op.before + op.codeToDelete + op.after
FullContextString(op) == op.before \o op.codeToDelete \o op.after

\* before + newCode + after for a Modification, before + after for a Deletion
ReplacementString(op) ==
    IF IsModification(op)
    THEN op.before \o op.newCode \o op.after
    ELSE op.before \o op.after

\* The test of the fallback: op.codeToDelete && occurrences === 1
DirectMatch(currentCode, codeToDelete) ==
    codeToDelete # <<>> /\ Occurrences(currentCode, codeToDelete) = 1

\* The content an operation leaves in a file of the given type
EditContent(type, currentCode, op) ==
    IF ~IsImageType(type)
    THEN IF Includes(currentCode, FullContextString(op))
         THEN StringReplace(currentCode, FullContextString(op),
                            ReplacementString(op))
         ELSE IF DirectMatch(currentCode, op.codeToDelete)
              THEN StringReplace(currentCode, op.codeToDelete,
                                 IF IsModification(op) THEN op.newCode ELSE <<>>)
              ELSE currentCode
    ELSE IF IsModification(op) THEN op.newCode ELSE currentCode

\* ApplyOperation giving a missing file an empty text record to edit
ApplyOperationCreate(map, op) ==
    LET fileData == IF MapHas(map, op.fileName)
                    THEN MapGet(map, op.fileName)
                    ELSE [name |-> op.fileName, content |-> <<>>,
                          type |-> TextPlain]
    IN  MapSet(map, op.fileName,
               EditContent(fileData.type, fileData.content, op),
               fileData.type)

\* One round of the loop over the operations
ApplyOperation(map, op) ==
    IF ~MapHas(map, op.fileName) THEN map
    ELSE LET fileData == MapGet(map, op.fileName)
         IN  MapSet(map, op.fileName,
                    EditContent(fileData.type, fileData.content, op),
                    fileData.type)

\* The type given to an entry of plan.newFiles
InferType(fileName) ==
    IF EndsWith(fileName, <<".", "j", "s">>) THEN AppJavascript
    ELSE IF EndsWith(fileName, <<".", "c", "s", "s">>) THEN TextCss
    ELSE IF EndsWith(fileName, <<".", "h", "t", "m", "l">>) THEN TextHtml
    ELSE TextPlain

\* NewFileEntry leaving a name that is already in the map alone
NewFileEntryKeep(map, newFile) ==
    IF MapHas(map, newFile.fileName) THEN map
    ELSE MapSet(map, newFile.fileName, newFile.code,
                InferType(newFile.fileName))

\* One round of the loop over plan.newFiles
NewFileEntry(map, newFile) ==
    MapSet(map, newFile.fileName, newFile.code, InferType(newFile.fileName))

\* originalFiles.forEach(file => finalFilesMap.set(...))
RECURSIVE LoadMap(_, _)
LoadMap(map, fileSet) ==
    IF fileSet = <<>> THEN map
    ELSE LoadMap(MapSet(map, Head(fileSet).name, Head(fileSet).content,
                        Head(fileSet).type),
                 Tail(fileSet))

\* 1. the loop over plan.deleteFiles
RECURSIVE DeleteFilesStep(_, _)
DeleteFilesStep(map, names) ==
    IF names = <<>> THEN map
    ELSE DeleteFilesStep(MapDelete(map, Head(names)), Tail(names))

\* Operations with the Modifications ahead of the Deletions
OperationsModifyFirst(p) == p.modify \o p.delete

\* [...(plan.delete ?? []), ...(plan.modify ?? [])]
Operations(p) == p.delete \o p.modify

\* 2. the loop over the operations
RECURSIVE OperationsStep(_, _)
OperationsStep(map, ops) ==
    IF ops = <<>> THEN map
    ELSE OperationsStep(ApplyOperation(map, Head(ops)), Tail(ops))

\* 3. the loop over plan.newFiles
RECURSIVE NewFilesStep(_, _)
NewFilesStep(map, newFiles) ==
    IF newFiles = <<>> THEN map
    ELSE NewFilesStep(NewFileEntry(map, Head(newFiles)), Tail(newFiles))

\* ToArray giving every record the type its name suggests
ToArrayInferred(map) ==
    [i \in 1..Len(map) |->
        [name |-> map[i].name, content |-> map[i].content,
         type |-> InferType(map[i].name)]]

\* Array.from(finalFilesMap.entries()).map(...)
ToArray(map) ==
    [i \in 1..Len(map) |->
        [name |-> map[i].name, content |-> map[i].content, type |-> map[i].type]]

\* A plan with every group present (an absent group is an empty array)
EmptyPlan == [deleteFiles |-> <<>>, delete |-> <<>>, modify |-> <<>>,
              newFiles |-> <<>>]

applyChanges(fileSet, p) ==
    ToArray(NewFilesStep(
                OperationsStep(
                    DeleteFilesStep(LoadMap(<<>>, fileSet), p.deleteFiles),
                    Operations(p)),
                p.newFiles))

-----------------------------------------------------------------------------
(* The state of App after its first render.                                *)

\* A localStorage with no key
EmptyStorage == <<>>

\* The repository before a call of commitChangesToRepo: the branch points
\* at the commit that was fetched
InitialRef == "fetched commit"
InitialRepository ==
    [ref |-> InitialRef, blobs |-> {}, trees |-> {}, commits |-> {}]

\* No call of commitChangesToRepo has begun
NoCall == [pc |-> "idle"]

\* The FileTree component has not rendered
NotRendered == [rendered |-> FALSE]

AppInit ==
    /\ files = <<>>
    /\ modifiedResult = <<>>
    /\ history = <<>>
    /\ isLoading = FALSE
    /\ isStreamingJson = FALSE
    /\ error = ""
    /\ successMessage = ""
    /\ savedVersions = <<>>
    /\ isRepoFetched = FALSE
    /\ isGithubLoading = FALSE
    /\ generations = {}
    /\ commits = {}
    /\ uploads = {}
    /\ localStorage = EmptyStorage
    /\ lastSave = 0
    /\ github = InitialRepository
    /\ commitCall = NoCall
    /\ tree = NotRendered
    /\ lastHandler = ""

-----------------------------------------------------------------------------
(* The call of applyChanges                                                *)

ApplyChangesCall ==
    /\ pc = "ready"
    /\ finalFiles' = applyChanges(originalFiles, plan)
    /\ pc' = "done"
    /\ UNCHANGED <<originalFiles, plan>>
    /\ UNCHANGED appVars

NextPatch == ApplyChangesCall

-----------------------------------------------------------------------------
(* The anchor specification: one text file and one operation on it, over   *)
(* every content, anchor and code up to the bounds.                        *)

AnchorName == <<"f">>

Deletions(names, befores, codes, afters) ==
    [fileName : names, before : befores, codeToDelete : codes, after : afters]

Modifications(names, befores, codes, news, afters) ==
    [fileName : names, before : befores, codeToDelete : codes,
     newCode : news, after : afters]

AnchorOps ==
    Deletions({AnchorName}, StrUpTo(Alphabet, MaxAnchor),
              StrUpTo(Alphabet, MaxCode), StrUpTo(Alphabet, MaxAnchor))
    \cup
    Modifications({AnchorName}, StrUpTo(Alphabet, MaxAnchor),
                  StrUpTo(Alphabet, MaxCode), StrUpTo(Alphabet, MaxNew),
                  StrUpTo(Alphabet, MaxAnchor))

InitAnchor ==
    /\ AppInit
    /\ pc = "ready"
    /\ finalFiles = <<>>
    /\ \E content \in StrUpTo(Alphabet, MaxContent) :
          originalFiles =
              <<[name |-> AnchorName, content |-> content, type |-> TextPlain]>>
    /\ \E op \in AnchorOps :
          plan = IF IsModification(op)
                 THEN [EmptyPlan EXCEPT !.modify = <<op>>]
                 ELSE [EmptyPlan EXCEPT !.delete = <<op>>]

SpecAnchor == InitAnchor /\ [][NextPatch]_vars

\* The operation of the anchor specification and the content it met
AnchorOp == Operations(plan)[1]
AnchorContent == originalFiles[1].content
AnchorResult == finalFiles[1].content

\* What the spec asks of a replacement: the first occurrence of target in s
\* becomes exactly replacement, character by character.
LiteralReplace(s, target, replacement) ==
    LET pos == IndexOf(s, target)
    IN  SubSeq(s, 1, pos) \o replacement
            \o SubSeq(s, pos + Len(target) + 1, Len(s))

\* C1: on a text file whose content contains before+codeToDelete+after, the
\* result is the content with the first occurrence of that text replaced by
\* before+newCode+after (before+after for a Deletion), whatever newCode holds.
C1_AnchoredReplace ==
    (pc = "done" /\ Includes(AnchorContent, FullContextString(AnchorOp)))
        => AnchorResult = LiteralReplace(AnchorContent,
                                         FullContextString(AnchorOp),
                                         ReplacementString(AnchorOp))

\* The positions of s (from 0) at which t occurs, overlapping ones included
Positions(s, t) ==
    {i \in 0..(Len(s) - Len(t)) : SubSeq(s, i + 1, i + Len(t)) = t}

\* C2: on a text file whose content does not contain
\* before+codeToDelete+after, an operation whose codeToDelete is empty or
\* occurs at no position or at two or more positions of the content leaves
\* the content as it was.
C2_UnresolvableSkipped ==
    (/\ pc = "done"
     /\ ~Includes(AnchorContent, FullContextString(AnchorOp))
     /\ \/ AnchorOp.codeToDelete = <<>>
        \/ Cardinality(Positions(AnchorContent, AnchorOp.codeToDelete)) # 1)
        => AnchorResult = AnchorContent

\* C3: on a text file whose content does not contain
\* before+codeToDelete+after but holds a non-empty codeToDelete at exactly
\* one position, the result is the content with that occurrence replaced by
\* exactly newCode (by nothing for a Deletion), whatever newCode holds.
C3_FallbackReplace ==
    (/\ pc = "done"
     /\ ~Includes(AnchorContent, FullContextString(AnchorOp))
     /\ AnchorOp.codeToDelete # <<>>
     /\ Cardinality(Positions(AnchorContent, AnchorOp.codeToDelete)) = 1)
        => AnchorResult =
              LiteralReplace(AnchorContent, AnchorOp.codeToDelete,
                             IF IsModification(AnchorOp)
                             THEN AnchorOp.newCode ELSE <<>>)

-----------------------------------------------------------------------------
(* The records fetchRepoContents makes of a path and its blob.            *)

JsName == <<"a", ".", "j", "s">>
CssName == <<"b", ".", "c", "s", "s">>
HtmlName == <<"c", ".", "h", "t", "m", "l">>
TsName == <<"d", ".", "t", "s">>
PngName == <<"p", ".", "p", "n", "g">>
IcoName == <<"f", ".", "i", "c", "o">>

\* String.prototype.toLowerCase, on the letters the model's paths use
ToLowerCase(s) ==
    [i \in 1..Len(s) |->
        CASE s[i] = "P" -> "p" [] s[i] = "N" -> "n" [] s[i] = "G" -> "g"
          [] s[i] = "J" -> "j" [] s[i] = "S" -> "s" [] s[i] = "T" -> "t"
          [] OTHER -> s[i]]

\* path.split('.').pop(): the text after the last ".", the whole path when
\* it has none
RECURSIVE LastPart(_)
LastPart(path) ==
    IF \A i \in 1..Len(path) : path[i] # "." THEN path
    ELSE LastPart(Tail(path))

BinaryExtensions ==
    {<<"p", "n", "g">>, <<"j", "p", "g">>, <<"j", "p", "e", "g">>,
     <<"g", "i", "f">>, <<"w", "e", "b", "p">>, <<"i", "c", "o">>,
     <<"w", "o", "f", "f">>, <<"w", "o", "f", "f", "2">>, <<"e", "o", "t">>,
     <<"t", "t", "f">>}

\* /\.(png|jpg|jpeg|gif|webp|ico|woff|woff2|eot|ttf)$/i.test(file.path)
IsBinaryPath(path) ==
    \E ext \in BinaryExtensions : EndsWith(ToLowerCase(path), <<".">> \o ext)

BinaryMimeType(path) ==
    LET ext == ToLowerCase(LastPart(path))
    IN  IF ext = <<"p", "n", "g">> THEN ImagePng
        ELSE IF ext = <<"j", "p", "g">> \/ ext = <<"j", "p", "e", "g">>
        THEN ImageJpeg
        ELSE IF ext = <<"g", "i", "f">> THEN ImageGif
        ELSE IF ext = <<"w", "e", "b", "p">> THEN ImageWebp
        ELSE AppOctetStream

TextMimeType(path) ==
    LET ext == ToLowerCase(LastPart(path))
    IN  IF ext = <<"j", "s">> \/ ext = <<"j", "s", "x">> THEN AppJavascript
        ELSE IF ext = <<"t", "s">> \/ ext = <<"t", "s", "x">> THEN AppTypescript
        ELSE IF ext = <<"h", "t", "m", "l">> THEN TextHtml
        ELSE IF ext = <<"c", "s", "s">> THEN TextCss
        ELSE IF ext = <<"j", "s", "o", "n">> THEN AppJson
        ELSE IF ext = <<"s", "v", "g">> THEN ImageSvg
        ELSE TextPlain

\* `data:${mimeType};base64,${blobData.content}`: the scheme, the two parts
\* of the type and the marker are one symbol each, the payload follows the
\* comma.
DataUrl(mimeType, base64) ==
    <<"data:">> \o mimeType \o <<";base64", ",">> \o base64

\* The record made of a path: base64 is the blob's content as the API sends
\* it, text what decodeBase64 makes of it.
FetchedFile(path, base64, text) ==
    IF IsBinaryPath(path)
    THEN [name |-> path,
          content |-> DataUrl(BinaryMimeType(path), base64),
          type |-> BinaryMimeType(path)]
    ELSE [name |-> path, content |-> text, type |-> TextMimeType(path)]

-----------------------------------------------------------------------------
(* The plan specification: File Sets of fetched records and plans of a few *)
(* operations over short codes.                                            *)

MaxFiles == 3       \* most records of a File Set
MaxPlanOps == 2     \* most entries of a plan, over its four groups

SeqsUpTo(S, n) == UNION {[1..k -> S] : k \in 0..n}

PlanFileNames == {JsName, TsName, PngName, IcoName}
PlanFileRecords == {FetchedFile(n, <<"a">>, <<"a">>) : n \in PlanFileNames}

FileSets ==
    {f \in SeqsUpTo(PlanFileRecords, MaxFiles) :
        \A i, j \in 1..Len(f) : f[i].name = f[j].name => i = j}

PlanOpNames == {JsName, PngName, IcoName}
PlanCodes == {<<"a">>, <<"b">>}
PlanDeletions == Deletions(PlanOpNames, {<<>>}, PlanCodes, {<<>>})
PlanModifications ==
    {m \in Modifications(PlanOpNames, {<<>>}, PlanCodes, PlanCodes, {<<>>}) :
        m.newCode # m.codeToDelete}
PlanNewFiles ==
    [fileName : {JsName, CssName, HtmlName, TsName}, code : PlanCodes]
PlanDeleteNames == {JsName, TsName}

Plans ==
    UNION {[deleteFiles : [1..n[1] -> PlanDeleteNames],
            delete : [1..n[2] -> PlanDeletions],
            modify : [1..n[3] -> PlanModifications],
            newFiles : [1..n[4] -> PlanNewFiles]] :
           n \in {m \in [1..4 -> 0..MaxPlanOps] :
                    m[1] + m[2] + m[3] + m[4] <= MaxPlanOps}}

InitPlan ==
    /\ AppInit
    /\ pc = "ready"
    /\ finalFiles = <<>>
    /\ originalFiles \in FileSets
    /\ plan \in Plans

SpecPlan == InitPlan /\ [][NextPatch]_vars

-----------------------------------------------------------------------------
(* What the claims about applyChanges speak of.                            *)

Range(seq) == {seq[i] : i \in 1..Len(seq)}

Names(fileSet) == {fileSet[i].name : i \in 1..Len(fileSet)}

RecordOf(fileSet, n) == fileSet[CHOOSE i \in 1..Len(fileSet) : fileSet[i].name = n]

OpNames(ops) == {ops[i].fileName : i \in 1..Len(ops)}

\* An operation that is not skipped on this content
Resolvable(content, op) ==
    \/ Includes(content, FullContextString(op))
    \/ DirectMatch(content, op.codeToDelete)

\* The operations of the plan on one file, in the order the spec gives:
\* the Deletions as listed, then the Modifications as listed
OpsOn(p, n) ==
    SelectSeq(p.delete, LAMBDA o : o.fileName = n)
        \o SelectSeq(p.modify, LAMBDA o : o.fileName = n)

RECURSIVE EditAll(_, _, _)
EditAll(type, content, ops) ==
    IF ops = <<>> THEN content
    ELSE EditAll(type, EditContent(type, content, Head(ops)), Tail(ops))

\* C4: a file that stays in the working set and that no newFiles entry names
\* ends with the content made by its Deletions in listed order and then its
\* Modifications in listed order, each applied to the content the one before
\* left; of two Modifications where the first is resolvable only on what the
\* second produces, the first is skipped.
C4_OperationOrder ==
    pc = "done" =>
        \A i \in 1..Len(originalFiles) :
            LET f == originalFiles[i]
                ops == OpsOn(plan, f.name)
            IN  (f.name \notin Range(plan.deleteFiles)
                    /\ f.name \notin OpNames(plan.newFiles)) =>
                /\ MapHas(finalFiles, f.name)
                /\ RecordOf(finalFiles, f.name).content
                        = EditAll(f.type, f.content, ops)
                /\ (/\ Len(ops) = 2
                    /\ IsModification(ops[1])
                    /\ ~Resolvable(f.content, ops[1])
                    /\ ~IsImageType(f.type))
                   => RecordOf(finalFiles, f.name).content
                        = EditContent(f.type, f.content, ops[2])

\* Two Modifications of one text file, the second resolvable only on the
\* text the first produces, and both have taken effect
C4_Witness ==
    /\ pc = "done"
    /\ Len(plan.modify) = 2
    /\ plan.modify[1].fileName = plan.modify[2].fileName
    /\ plan.modify[1].fileName \in Names(originalFiles)
    /\ LET f == RecordOf(originalFiles, plan.modify[1].fileName)
           first == EditContent(f.type, f.content, plan.modify[1])
           both == EditContent(f.type, first, plan.modify[2])
       IN  /\ ~IsImageType(f.type)
           /\ Resolvable(f.content, plan.modify[1])
           /\ ~Resolvable(f.content, plan.modify[2])
           /\ Resolvable(first, plan.modify[2])
           /\ both # first
           /\ RecordOf(finalFiles, f.name).content = both

\* A name the in-file operations cannot find: listed in plan.deleteFiles or
\* never in the File Set
Gone(n) == n \in Range(plan.deleteFiles) \/ n \notin Names(originalFiles)

\* C5: a name that plan.deleteFiles lists, or that was never in the File
\* Set, is absent from the result unless plan.newFiles names it, whatever
\* Deletions and Modifications name it; the result is the one of the plan
\* without those Deletions and Modifications.
C5_DeleteFilesFirst ==
    pc = "done" =>
        /\ \A n \in Range(plan.deleteFiles) \cup OpNames(Operations(plan)) :
                (Gone(n) /\ n \notin OpNames(plan.newFiles))
                    => n \notin Names(finalFiles)
        /\ finalFiles =
              applyChanges(originalFiles,
                  [plan EXCEPT
                      !.delete = SelectSeq(@, LAMBDA o : ~Gone(o.fileName)),
                      !.modify = SelectSeq(@, LAMBDA o : ~Gone(o.fileName))])

\* A Modification of a file of the File Set that plan.deleteFiles lists
C5_Witness ==
    /\ pc = "done"
    /\ \E i \in 1..Len(plan.modify) :
          /\ plan.modify[i].fileName \in Range(plan.deleteFiles)
          /\ plan.modify[i].fileName \in Names(originalFiles)
          /\ plan.modify[i].fileName \notin Names(finalFiles)

\* The names any entry of the plan mentions
Touched(p) ==
    Range(p.deleteFiles) \cup OpNames(p.delete) \cup OpNames(p.modify)
        \cup OpNames(p.newFiles)

Untouched(fileSet, p) == SelectSeq(fileSet, LAMBDA f : f.name \notin Touched(p))

\* C6: the call leaves the input as it was, and the records of the input
\* that no entry of the plan names are in the result with the same name,
\* content and type, in the same relative order.
C6_UntouchedKept ==
    [][pc' = "done" =>
          /\ originalFiles' = originalFiles
          /\ Untouched(finalFiles', plan) = Untouched(originalFiles, plan)]_vars

\* Two untouched records around a record the plan removes
C6_Witness ==
    /\ pc = "done"
    /\ Len(originalFiles) = 3
    /\ originalFiles[2].name \in Range(plan.deleteFiles)
    /\ Len(Untouched(originalFiles, plan)) = 2
    /\ Len(finalFiles) = 2

\* C8: every name of plan.newFiles has one record in the result, with the
\* code of the last entry that names it; a name that was not in the File
\* Set gets its type from its ending.
C8_NewFiles ==
    pc = "done" =>
        \A i \in 1..Len(plan.newFiles) :
            LET n == plan.newFiles[i].fileName
                last == CHOOSE j \in 1..Len(plan.newFiles) :
                            /\ plan.newFiles[j].fileName = n
                            /\ \A k \in (j + 1)..Len(plan.newFiles) :
                                    plan.newFiles[k].fileName # n
                at == {k \in 1..Len(finalFiles) : finalFiles[k].name = n}
            IN  /\ Cardinality(at) = 1
                /\ \A k \in at :
                      /\ finalFiles[k].content = plan.newFiles[last].code
                      /\ n \notin Names(originalFiles) =>
                            /\ EndsWith(n, <<".", "j", "s">>)
                                  => finalFiles[k].type = AppJavascript
                            /\ EndsWith(n, <<".", "c", "s", "s">>)
                                  => finalFiles[k].type = TextCss
                            /\ EndsWith(n, <<".", "h", "t", "m", "l">>)
                                  => finalFiles[k].type = TextHtml
                            /\ (/\ ~EndsWith(n, <<".", "j", "s">>)
                                /\ ~EndsWith(n, <<".", "c", "s", "s">>)
                                /\ ~EndsWith(n, <<".", "h", "t", "m", "l">>))
                                  => finalFiles[k].type = TextPlain

\* Two entries for one brand-new stylesheet, with different code
C8_Witness ==
    /\ pc = "done"
    /\ Len(plan.newFiles) = 2
    /\ plan.newFiles[1].fileName = CssName
    /\ plan.newFiles[2].fileName = CssName
    /\ plan.newFiles[1].code # plan.newFiles[2].code
    /\ CssName \notin Names(originalFiles)
    /\ RecordOf(finalFiles, CssName).content = plan.newFiles[2].code
    /\ RecordOf(finalFiles, CssName).type = TextCss

\* C9: a file of the File Set that plan.newFiles overwrites keeps the type
\* it had.
C9_OverwriteKeepsType ==
    pc = "done" =>
        \A i \in 1..Len(plan.newFiles) :
            LET n == plan.newFiles[i].fileName
            IN  n \in Names(originalFiles) =>
                    RecordOf(finalFiles, n).type = RecordOf(originalFiles, n).type

\* content.startsWith('data:'): the content is a data URI
IsDataUrl(content) == StartsWith(content, <<"data:">>)

\* C10: on a record whose content is a data URI, a Modification sets the
\* content to newCode and a Deletion changes nothing (stated for a record
\* that one operation and no other entry of the plan names).
C10_BinaryWholesale ==
    pc = "done" =>
        \A i \in 1..Len(originalFiles) :
            LET f == originalFiles[i]
                ops == OpsOn(plan, f.name)
            IN  (/\ IsDataUrl(f.content)
                 /\ Len(ops) = 1
                 /\ f.name \notin Range(plan.deleteFiles)
                 /\ f.name \notin OpNames(plan.newFiles)) =>
                RecordOf(finalFiles, f.name) =
                    IF IsModification(ops[1])
                    THEN [f EXCEPT !.content = ops[1].newCode]
                    ELSE f

\* A plan whose only entry is deleteFiles: [X]
OnlyDeleteFile(p) ==
    /\ Len(p.deleteFiles) = 1
    /\ p.delete = <<>>
    /\ p.modify = <<>>
    /\ p.newFiles = <<>>

\* C11: applying a plan that holds only deleteFiles: [X] to its own result
\* gives that result again, and when no record of the File Set is named X
\* the result is the File Set, record for record.
C11_DeleteFileIdempotent ==
    (pc = "done" /\ OnlyDeleteFile(plan)) =>
        /\ applyChanges(finalFiles, plan) = finalFiles
        /\ plan.deleteFiles[1] \notin Names(originalFiles)
                => finalFiles = originalFiles

\* A file among others was deleted by such a plan
C11_Witness ==
    /\ pc = "done"
    /\ OnlyDeleteFile(plan)
    /\ plan.deleteFiles[1] \in Names(originalFiles)
    /\ Len(originalFiles) >= 2
    /\ Len(finalFiles) = Len(originalFiles) - 1
    /\ plan.deleteFiles[1] \notin Names(finalFiles)

-----------------------------------------------------------------------------
(* The version store (utils/storage.ts).  localStorage maps each key it    *)
(* holds to the string stored under it; keys and values are sequences, a   *)
(* decimal number being the sequence of its digits.                        *)

MaxVersions == 1    \* most versions saved in a run

\* What can go wrong in a call of saveCodeVersion
SaveFaults == {"none", "unavailable", "first", "second"}

VERSION_PREFIX == <<"ai_code_modifier_version_">>
VERSION_COUNT_KEY == VERSION_PREFIX \o <<"c", "o", "u", "n", "t">>

Digits == <<"0", "1", "2", "3", "4", "5", "6", "7", "8", "9">>

IsDigit(c) == \E d \in 1..10 : Digits[d] = c

DigitValue(c) == (CHOOSE d \in 1..10 : Digits[d] = c) - 1

\* The value of a number that is not a number
NaN == -2

\* Number.prototype.toString
RECURSIVE NumberToString(_)
NumberToString(n) ==
    IF n = NaN THEN <<"N", "a", "N">>
    ELSE IF n < 10 THEN <<Digits[n + 1]>>
    ELSE NumberToString(n \div 10) \o <<Digits[(n % 10) + 1]>>

\* parseInt(s, 10): the number its leading digits write, NaN without one
RECURSIVE ParseDigits(_, _)
ParseDigits(s, acc) ==
    IF s = <<>> \/ ~IsDigit(Head(s)) THEN acc
    ELSE ParseDigits(Tail(s), 10 * acc + DigitValue(Head(s)))

ParseInt(s) ==
    IF s = <<>> \/ ~IsDigit(Head(s)) THEN NaN ELSE ParseDigits(s, 0)

\* JSON.stringify of a File Set; JSON.parse of a stored value throws on a
\* value that is not JSON
Stringify(fileSet) == <<"json", fileSet>>
ParseThrows(stored) == stored[1] # "json"
Parse(stored) == stored[2]

\* localStorage.getItem (<<>> stands for null) and localStorage.setItem
GetItem(storage, key) == IF key \in DOMAIN storage THEN storage[key] ELSE <<>>

SetItem(storage, key, value) ==
    [k \in (DOMAIN storage) \cup {key} |-> IF k = key THEN value ELSE storage[k]]

RemoveItems(storage, keys) == [k \in (DOMAIN storage) \ keys |-> storage[k]]

\* `${VERSION_PREFIX}${newVersion}`
VersionKey(n) == VERSION_PREFIX \o NumberToString(n)

\* currentVersionCount of saveCodeVersion
CurrentVersionCount(storage) ==
    IF GetItem(storage, VERSION_COUNT_KEY) = <<>> THEN 0
    ELSE ParseInt(GetItem(storage, VERSION_COUNT_KEY))

\* saveCodeVersion: the storage after the call and the number returned.
\* fault says what goes wrong: "unavailable" (there is no localStorage),
\* "first" (the setItem of the version entry throws), "second" (the setItem
\* of the counter throws) or "none".
saveCodeVersion(storage, fileSet, fault) ==
    LET currentVersionCount == CurrentVersionCount(storage)
        newVersion == IF currentVersionCount = NaN THEN NaN
                      ELSE currentVersionCount + 1
        entryWritten == SetItem(storage, VersionKey(newVersion),
                                Stringify(fileSet))
    IN  IF fault \in {"unavailable", "first"}
        THEN [storage |-> storage, result |-> -1]
        ELSE IF fault = "second"
        THEN [storage |-> entryWritten, result |-> -1]
        ELSE [storage |-> SetItem(entryWritten, VERSION_COUNT_KEY,
                                  NumberToString(newVersion)),
              result |-> newVersion]

\* key.replace(VERSION_PREFIX, '') read by parseInt
VersionNumber(key) == ParseInt(StringReplace(key, VERSION_PREFIX, <<>>))

\* VersionKeys without the inner try: one value that does not parse makes
\* the whole call return []
VersionKeysAllOrNone(storage) ==
    LET numbered == {key \in DOMAIN storage :
                        /\ StartsWith(key, VERSION_PREFIX)
                        /\ VersionNumber(key) # NaN
                        /\ storage[key] # <<>>}
    IN  IF \E key \in numbered : ParseThrows(storage[key])
        THEN {}
        ELSE numbered

\* The keys of getSavedVersions whose entry is pushed
VersionKeys(storage) ==
    {key \in DOMAIN storage :
        /\ StartsWith(key, VERSION_PREFIX)
        /\ VersionNumber(key) # NaN
        /\ storage[key] # <<>>
        /\ ~ParseThrows(storage[key])}

\* versions.sort((a, b) => a.versionNumber - b.versionNumber)
RECURSIVE SortedVersions(_, _)
SortedVersions(storage, keys) ==
    IF keys = {} THEN <<>>
    ELSE LET key == CHOOSE x \in keys :
                        \A y \in keys : VersionNumber(x) <= VersionNumber(y)
         IN  <<[versionNumber |-> VersionNumber(key),
                files |-> Parse(storage[key])]>>
                \o SortedVersions(storage, keys \ {key})

\* getSavedVersions: the parsed entries, ascending by version number
getSavedVersions(storage) == SortedVersions(storage, VersionKeys(storage))

\* clearAllVersions leaving the counter key in the storage
clearAllVersionsKeepCount(storage) ==
    RemoveItems(storage,
                {key \in DOMAIN storage :
                    StartsWith(key, VERSION_PREFIX) /\ key # VERSION_COUNT_KEY})

\* clearAllVersions: every key with the prefix and the counter key go
clearAllVersions(storage) ==
    RemoveItems(storage,
                {key \in DOMAIN storage :
                    StartsWith(key, VERSION_PREFIX) \/ key = VERSION_COUNT_KEY})

-----------------------------------------------------------------------------
(* The store specifications: the three functions of utils/storage.ts      *)
(* called in any order.  SpecStore starts from an empty localStorage and   *)
(* every write succeeds; SpecStoreFault starts from any store the program  *)
(* can have left, with values that no longer parse and a key of another    *)
(* program, and a call of saveCodeVersion can fail.                        *)

MaxStoreSaves == 3  \* highest value of the counter in the store specifications

\* The variables the store functions leave alone
sessionVars == <<files, modifiedResult, history, isLoading, isStreamingJson,
                 error, successMessage, isRepoFetched, isGithubLoading,
                 generations, commits, uploads>>

StoreFileSets == {<<>>, <<FetchedFile(JsName, <<"a">>, <<"a">>)>>,
                  <<FetchedFile(JsName, <<"b">>, <<"b">>)>>}

\* A stored value that JSON.parse throws on
Corrupt == <<"{", <<>>>>

\* A key of another program of the same origin
ForeignKey == <<"t", "h", "e", "m", "e">>

\* The stores of n versions, each entry as saved or no longer parsing
RECURSIVE StoresOf(_)
StoresOf(n) ==
    IF n = 0 THEN {EmptyStorage}
    ELSE {SetItem(SetItem(storage, VersionKey(n), value),
                  VERSION_COUNT_KEY, NumberToString(n)) :
            storage \in StoresOf(n - 1),
            value \in {Stringify(<<FetchedFile(JsName, <<"a">>, <<"a">>)>>),
                       Corrupt}}

StoreInits ==
    LET stores == UNION {StoresOf(n) : n \in 0..(MaxStoreSaves - 1)}
    IN  stores \cup {SetItem(storage, ForeignKey, <<"d", "a", "r", "k">>) :
                        storage \in stores}

StoreSave(fileSet, fault) ==
    /\ CurrentVersionCount(localStorage) < MaxStoreSaves
    /\ localStorage' = saveCodeVersion(localStorage, fileSet, fault).storage
    /\ lastSave' = saveCodeVersion(localStorage, fileSet, fault).result
    /\ lastHandler' = "saveCodeVersion"
    /\ UNCHANGED <<patchVars, commitVars, tree, sessionVars, savedVersions>>

\* refreshVersions: the list is read from the store
StoreList ==
    /\ savedVersions' = getSavedVersions(localStorage)
    /\ lastHandler' = "getSavedVersions"
    /\ UNCHANGED <<patchVars, commitVars, tree, sessionVars, localStorage, lastSave>>

StoreClear ==
    /\ localStorage' = clearAllVersions(localStorage)
    /\ lastHandler' = "clearAllVersions"
    /\ UNCHANGED <<patchVars, commitVars, tree, sessionVars, savedVersions, lastSave>>

StoreIdle ==
    /\ pc = "ready"
    /\ originalFiles = <<>>
    /\ plan = EmptyPlan
    /\ finalFiles = <<>>

InitStore == AppInit /\ StoreIdle

NextStore ==
    \/ \E fileSet \in StoreFileSets : StoreSave(fileSet, "none")
    \/ StoreList
    \/ StoreClear

SpecStore == InitStore /\ [][NextStore]_vars

InitStoreFault ==
    /\ StoreIdle
    /\ files = <<>>
    /\ modifiedResult = <<>>
    /\ history = <<>>
    /\ isLoading = FALSE
    /\ isStreamingJson = FALSE
    /\ error = ""
    /\ successMessage = ""
    /\ savedVersions = <<>>
    /\ isRepoFetched = FALSE
    /\ isGithubLoading = FALSE
    /\ generations = {}
    /\ commits = {}
    /\ uploads = {}
    /\ localStorage \in StoreInits
    /\ lastSave = 0
    /\ github = InitialRepository
    /\ commitCall = NoCall
    /\ tree = NotRendered
    /\ lastHandler = ""

NextStoreFault ==
    \/ \E fileSet \in StoreFileSets : \E fault \in SaveFaults :
          StoreSave(fileSet, fault)
    \/ StoreList
    \/ StoreClear

SpecStoreFault == InitStoreFault /\ [][NextStoreFault]_vars

\* The numbers under which the store holds a version entry that parses
StoredNumbers(storage) ==
    {n \in 0..(MaxStoreSaves + 1) :
        /\ VersionKey(n) \in DOMAIN storage
        /\ ~ParseThrows(storage[VersionKey(n)])}

\* C15: with every call successful, the version numbers in the store are
\* exactly 1..n, getSavedVersions lists them in that order, and a save
\* returns 1 on a store without version (at the start and after
\* clearAllVersions) and otherwise one more than the save before it.
C15_VersionNumbering ==
    [][/\ LET listed == getSavedVersions(localStorage')
              n == Len(listed)
          IN  /\ StoredNumbers(localStorage') = 1..n
              /\ \A k \in 1..n : listed[k].versionNumber = k
       /\ lastHandler' = "saveCodeVersion" =>
              lastSave' = IF StoredNumbers(localStorage) = {} THEN 1
                          ELSE lastSave + 1
      ]_vars

\* Three versions were saved and listed, the store was cleared, and the
\* next save returned 1
C15_Witness ==
    /\ lastHandler = "saveCodeVersion"
    /\ lastSave = 1
    /\ Len(savedVersions) = 3
    /\ savedVersions[3].versionNumber = 3
    /\ StoredNumbers(localStorage) = {1}

\* C16: a version entry that parses stays in the store with the value it
\* has through every call but clearAllVersions, the calls of saveCodeVersion
\* that fail included.
C16_VersionsImmutable ==
    [][lastHandler' # "clearAllVersions" =>
          \A n \in StoredNumbers(localStorage) :
              /\ n \in StoredNumbers(localStorage')
              /\ localStorage'[VersionKey(n)] = localStorage[VersionKey(n)]
      ]_vars

\* The versions the store holds under the given numbers, ascending
RECURSIVE AscendingVersions(_, _)
AscendingVersions(storage, numbers) ==
    IF numbers = {} THEN <<>>
    ELSE LET n == CHOOSE x \in numbers : \A y \in numbers : x <= y
         IN  <<[versionNumber |-> n, files |-> Parse(storage[VersionKey(n)])]>>
                \o AscendingVersions(storage, numbers \ {n})

\* C19: getSavedVersions returns the version entries whose value parses,
\* each with its number and its File Set, ascending by number, and nothing
\* else (not the counter, not a key of another program); an entry that does
\* not parse is left out and the store is left as it is.
C19_ListsParsedVersions ==
    [][lastHandler' = "getSavedVersions" =>
          /\ savedVersions' =
                AscendingVersions(localStorage, StoredNumbers(localStorage))
          /\ localStorage' = localStorage
      ]_vars

\* The store holds the counter, a first version that does not parse and a
\* second one that does, and the list read from it holds the second alone
C19_Witness ==
    /\ lastHandler = "getSavedVersions"
    /\ VERSION_COUNT_KEY \in DOMAIN localStorage
    /\ VersionKey(1) \in DOMAIN localStorage
    /\ ParseThrows(localStorage[VersionKey(1)])
    /\ StoredNumbers(localStorage) = {2}
    /\ Len(savedVersions) = 1
    /\ savedVersions[1].versionNumber = 2

-----------------------------------------------------------------------------
(* App: the handlers.  A handler that awaits keeps the state it was        *)
(* created with (its closure) in generations or commits until it resumes.  *)

MAX_HISTORY_LENGTH == 10

MaxUploads == 1     \* most uploads reading their files at a time

\* The File Sets, plans and contents the session is run over
AppFile(content) == FetchedFile(JsName, content, content)
AppContents == {<<"a">>, <<"b">>}
AppPlans ==
    {EmptyPlan,
     [EmptyPlan EXCEPT !.modify =
         <<[fileName |-> JsName, before |-> <<>>, codeToDelete |-> <<"a">>,
            newCode |-> <<"b">>, after |-> <<>>]>>],
     [EmptyPlan EXCEPT !.deleteFiles = <<JsName>>],
     [EmptyPlan EXCEPT !.newFiles = <<[fileName |-> JsName, code |-> <<"a">>]>>]}

\* setHistory(prev => [files, ...prev].slice(0, MAX_HISTORY_LENGTH))
PushHistory(prev, fileSet) ==
    LET all == <<fileSet>> \o prev
    IN  SubSeq(all, 1, IF Len(all) < MAX_HISTORY_LENGTH
                       THEN Len(all) ELSE MAX_HISTORY_LENGTH)

\* prev.slice(1)
Slice1(prev) == IF prev = <<>> THEN <<>> ELSE Tail(prev)

\* plan.delete?.length || plan.modify?.length || plan.newFiles?.length
\*     || plan.deleteFiles?.length
HasChanges(p) ==
    Len(p.delete) > 0 \/ Len(p.modify) > 0 \/ Len(p.newFiles) > 0
        \/ Len(p.deleteFiles) > 0

\* handleGenerateOrModify returns early: files but no file selected
GenerateNoSelection ==
    /\ ~isLoading
    /\ files # <<>>
    /\ error' = "Please select at least one file to modify."
    /\ lastHandler' = "handleGenerateOrModify"
    /\ UNCHANGED <<patchVars, commitVars, tree, uploads, lastSave>>
    /\ UNCHANGED <<files, modifiedResult, history, isLoading, isStreamingJson,
                   successMessage, savedVersions, isRepoFetched,
                   isGithubLoading, generations, commits, localStorage>>

\* handleGenerateOrModify started while the loading flag is set
GenerateStartReentrant ==
    /\ isLoading' = TRUE
    /\ modifiedResult' = <<>>
    /\ error' = ""
    /\ successMessage' = ""
    /\ history' = IF files # <<>> THEN PushHistory(<<>>, files) ELSE <<>>
    /\ isStreamingJson' = TRUE
    /\ generations' = generations
            \cup {[files |-> files, historyBefore |-> history]}
    /\ lastHandler' = "handleGenerateOrModify"
    /\ UNCHANGED <<patchVars, commitVars, tree, uploads, lastSave>>
    /\ UNCHANGED <<files, savedVersions, isRepoFetched, isGithubLoading,
                   commits, localStorage>>

\* handleGenerateOrModify up to its await of the stream.  The call keeps
\* the files it was rendered with; historyBefore is the Session History it
\* began with, which the code does not read again.
GenerateStart ==
    /\ ~isLoading
    /\ isLoading' = TRUE
    /\ modifiedResult' = <<>>
    /\ error' = ""
    /\ successMessage' = ""
    /\ history' = IF files # <<>> THEN PushHistory(<<>>, files) ELSE <<>>
    /\ isStreamingJson' = TRUE
    /\ generations' = generations
            \cup {[files |-> files, historyBefore |-> history]}
    /\ lastHandler' = "handleGenerateOrModify"
    /\ UNCHANGED <<patchVars, commitVars, tree, uploads, lastSave>>
    /\ UNCHANGED <<files, savedVersions, isRepoFetched, isGithubLoading,
                   commits, localStorage>>

\* StreamEnd installing the patch result in the working files at once
StreamEndInstall(g, parsed, p) ==
    /\ g \in generations
    /\ generations' = generations \ {g}
    /\ IF ~parsed
       THEN /\ error' = "generation failed"
            /\ history' = IF g.files # <<>> THEN Slice1(history) ELSE history
            /\ UNCHANGED <<modifiedResult, files>>
       ELSE IF ~HasChanges(p)
       THEN /\ error' = "AI did not suggest any changes."
            /\ history' = IF g.files # <<>> THEN Slice1(history) ELSE history
            /\ UNCHANGED <<modifiedResult, files>>
       ELSE /\ modifiedResult' =
                  <<[modifiedFiles |-> applyChanges(g.files, p),
                     plan |-> p]>>
            /\ files' = applyChanges(g.files, p)
            /\ UNCHANGED <<error, history>>
    /\ isLoading' = FALSE
    /\ isStreamingJson' = FALSE
    /\ lastHandler' = "stream"
    /\ UNCHANGED <<patchVars, commitVars, tree, uploads, lastSave>>
    /\ UNCHANGED <<successMessage, savedVersions, isRepoFetched,
                   isGithubLoading, commits, localStorage>>

\* StreamEnd without the finally block when the attempt fails
StreamEndNoFinally(g, parsed, p) ==
    /\ g \in generations
    /\ generations' = generations \ {g}
    /\ IF ~parsed \/ ~HasChanges(p)
       THEN /\ error' = "generation failed"
            /\ history' = IF g.files # <<>> THEN Slice1(history) ELSE history
            /\ UNCHANGED <<modifiedResult, isLoading, isStreamingJson>>
       ELSE /\ modifiedResult' =
                  <<[modifiedFiles |-> applyChanges(g.files, p),
                     plan |-> p]>>
            /\ isLoading' = FALSE
            /\ isStreamingJson' = FALSE
            /\ UNCHANGED <<error, history>>
    /\ lastHandler' = "stream"
    /\ UNCHANGED <<patchVars, commitVars, tree, uploads, lastSave>>
    /\ UNCHANGED <<files, successMessage, savedVersions, isRepoFetched,
                   isGithubLoading, commits, localStorage>>

\* handleGenerateOrModify after the stream: it threw or the JSON did not
\* parse (~parsed), or the text parsed to the plan p
StreamEnd(g, parsed, p) ==
    /\ g \in generations
    /\ generations' = generations \ {g}
    /\ IF ~parsed
       THEN /\ error' = "generation failed"
            /\ history' = IF g.files # <<>> THEN Slice1(history) ELSE history
            /\ UNCHANGED modifiedResult
       ELSE IF ~HasChanges(p)
       THEN /\ error' = "AI did not suggest any changes."
            /\ history' = IF g.files # <<>> THEN Slice1(history) ELSE history
            /\ UNCHANGED modifiedResult
       ELSE /\ modifiedResult' =
                  <<[modifiedFiles |-> applyChanges(g.files, p),
                     plan |-> p]>>
            /\ UNCHANGED <<error, history>>
    /\ isLoading' = FALSE
    /\ isStreamingJson' = FALSE
    /\ lastHandler' = "stream"
    /\ UNCHANGED <<patchVars, commitVars, tree, uploads, lastSave>>
    /\ UNCHANGED <<files, successMessage, savedVersions, isRepoFetched,
                   isGithubLoading, commits, localStorage>>

\* handleApproveClick in local mode
ApproveLocal(fault) ==
    /\ ~isLoading
    /\ modifiedResult # <<>>
    /\ ~isRepoFetched
    /\ CurrentVersionCount(localStorage) < MaxVersions
    /\ localStorage' = saveCodeVersion(localStorage, files, fault).storage
    /\ lastSave' = saveCodeVersion(localStorage, files, fault).result
    /\ savedVersions' = getSavedVersions(localStorage')
    /\ files' = modifiedResult[1].modifiedFiles
    /\ modifiedResult' = <<>>
    /\ history' = <<>>
    /\ error' = ""
    /\ successMessage' = "Changes approved and saved as a new local version."
    /\ lastHandler' = "handleApproveClick"
    /\ UNCHANGED <<patchVars, commitVars, tree, uploads>>
    /\ UNCHANGED <<isLoading, isStreamingJson, isRepoFetched, isGithubLoading,
                   generations, commits>>

\* handleApproveClick in GitHub mode up to its await of the commit
ApproveGithubStart ==
    /\ ~isLoading
    /\ modifiedResult # <<>>
    /\ isRepoFetched
    /\ isLoading' = TRUE
    /\ error' = ""
    /\ successMessage' = ""
    /\ commits' = commits \cup {[modifiedFiles |-> modifiedResult[1].modifiedFiles]}
    /\ lastHandler' = "handleApproveClick"
    /\ UNCHANGED <<patchVars, commitVars, tree, uploads, lastSave>>
    /\ UNCHANGED <<files, modifiedResult, history, isStreamingJson,
                   savedVersions, isRepoFetched, isGithubLoading, generations,
                   localStorage>>

\* CommitEnd running resetState when the commit failed
CommitEndReset(c, ok) ==
    /\ c \in commits
    /\ commits' = commits \ {c}
    /\ IF ok
       THEN /\ files' = c.modifiedFiles
            /\ modifiedResult' = <<>>
            /\ history' = <<>>
            /\ error' = ""
            /\ successMessage' = "Successfully committed to GitHub!"
       ELSE /\ error' = "GitHub Commit Failed"
            /\ modifiedResult' = <<>>
            /\ history' = <<>>
            /\ UNCHANGED <<files, successMessage>>
    /\ isLoading' = FALSE
    /\ lastHandler' = "commit"
    /\ UNCHANGED <<patchVars, commitVars, tree, uploads, lastSave>>
    /\ UNCHANGED <<isStreamingJson, savedVersions, isRepoFetched,
                   isGithubLoading, generations, localStorage>>

\* handleApproveClick in GitHub mode after commitChangesToRepo returned (ok)
\* or threw
CommitEnd(c, ok) ==
    /\ c \in commits
    /\ commits' = commits \ {c}
    /\ IF ok
       THEN /\ files' = c.modifiedFiles
            /\ modifiedResult' = <<>>
            /\ history' = <<>>
            /\ error' = ""
            /\ successMessage' = "Successfully committed to GitHub!"
       ELSE /\ error' = "GitHub Commit Failed"
            /\ UNCHANGED <<files, modifiedResult, history, successMessage>>
    /\ isLoading' = FALSE
    /\ lastHandler' = "commit"
    /\ UNCHANGED <<patchVars, commitVars, tree, uploads, lastSave>>
    /\ UNCHANGED <<isStreamingJson, savedVersions, isRepoFetched,
                   isGithubLoading, generations, localStorage>>

\* handleUndoClick leaving the snapshot it restored in the history
handleUndoClickKeep ==
    /\ ~isLoading
    /\ history # <<>>
    /\ ~isRepoFetched
    /\ files' = Head(history)
    /\ history' = history
    /\ modifiedResult' = <<>>
    /\ error' = ""
    /\ successMessage' = ""
    /\ lastHandler' = "handleUndoClick"
    /\ UNCHANGED <<patchVars, commitVars, tree, uploads, lastSave>>
    /\ UNCHANGED <<isLoading, isStreamingJson, savedVersions, isRepoFetched,
                   isGithubLoading, generations, commits, localStorage>>

\* handleUndoClick (the button is disabled while loading, with an empty
\* history and in GitHub mode); resetState runs last and empties the history
handleUndoClick ==
    /\ ~isLoading
    /\ history # <<>>
    /\ ~isRepoFetched
    /\ files' = Head(history)
    /\ history' = <<>>
    /\ modifiedResult' = <<>>
    /\ error' = ""
    /\ successMessage' = ""
    /\ lastHandler' = "handleUndoClick"
    /\ UNCHANGED <<patchVars, commitVars, tree, uploads, lastSave>>
    /\ UNCHANGED <<isLoading, isStreamingJson, savedVersions, isRepoFetched,
                   isGithubLoading, generations, commits, localStorage>>

\* handleLoadVersion (the versions are listed in local mode only)
handleLoadVersion(version) ==
    /\ ~isRepoFetched
    /\ version \in Range(savedVersions)
    /\ files' = version.files
    /\ modifiedResult' = <<>>
    /\ history' = <<>>
    /\ error' = ""
    /\ successMessage' = ""
    /\ lastHandler' = "handleLoadVersion"
    /\ UNCHANGED <<patchVars, commitVars, tree, uploads, lastSave>>
    /\ UNCHANGED <<isLoading, isStreamingJson, savedVersions, isRepoFetched,
                   isGithubLoading, generations, commits, localStorage>>

\* handleFileContentChange, from the editor (read-only with a staged result
\* and in GitHub mode)
handleFileContentChange(fileName, newContent) ==
    /\ modifiedResult = <<>>
    /\ ~isRepoFetched
    /\ fileName \in Names(files)
    /\ files' = [i \in 1..Len(files) |->
                    IF files[i].name = fileName
                    THEN [files[i] EXCEPT !.content = newContent]
                    ELSE files[i]]
    /\ lastHandler' = "handleFileContentChange"
    /\ UNCHANGED <<patchVars, commitVars, tree, uploads, lastSave>>
    /\ UNCHANGED <<modifiedResult, history, isLoading, isStreamingJson, error,
                   successMessage, savedVersions, isRepoFetched,
                   isGithubLoading, generations, commits, localStorage>>

\* handleFileUpload up to its first await (the input is disabled with a
\* staged result and in GitHub mode); the call keeps the files it was
\* rendered with
UploadStart(newFiles) ==
    /\ modifiedResult = <<>>
    /\ ~isRepoFetched
    /\ Cardinality(uploads) < MaxUploads
    /\ uploads' = uploads \cup {[files |-> files, newFiles |-> newFiles]}
    /\ lastHandler' = "handleFileUpload"
    /\ UNCHANGED <<patchVars, commitVars, tree, lastSave>>
    /\ UNCHANGED <<files, modifiedResult, history, isLoading, isStreamingJson,
                   error, successMessage, savedVersions, isRepoFetched,
                   isGithubLoading, generations, commits, localStorage>>

\* handleFileUpload after the files were read: the new files whose name is
\* not taken are appended to the files of the call
UploadEnd(u) ==
    /\ u \in uploads
    /\ uploads' = uploads \ {u}
    /\ IF u.newFiles # <<>>
       THEN files' = u.files \o SelectSeq(u.newFiles,
                                 LAMBDA f : f.name \notin Names(u.files))
       ELSE UNCHANGED files
    /\ lastHandler' = "upload"
    /\ UNCHANGED <<patchVars, commitVars, tree, lastSave>>
    /\ UNCHANGED <<modifiedResult, history, isLoading, isStreamingJson, error,
                   successMessage, savedVersions, isRepoFetched,
                   isGithubLoading, generations, commits, localStorage>>

\* handleClearFile
handleClearFile(fileName) ==
    /\ modifiedResult = <<>>
    /\ ~isRepoFetched
    /\ fileName \in Names(files)
    /\ files' = SelectSeq(files, LAMBDA f : f.name # fileName)
    /\ lastHandler' = "handleClearFile"
    /\ UNCHANGED <<patchVars, commitVars, tree, uploads, lastSave>>
    /\ UNCHANGED <<modifiedResult, history, isLoading, isStreamingJson, error,
                   successMessage, savedVersions, isRepoFetched,
                   isGithubLoading, generations, commits, localStorage>>

\* handleClearAllFiles
handleClearAllFiles ==
    /\ modifiedResult = <<>>
    /\ ~isRepoFetched
    /\ files # <<>>
    /\ files' = <<>>
    /\ lastHandler' = "handleClearAllFiles"
    /\ UNCHANGED <<patchVars, commitVars, tree, uploads, lastSave>>
    /\ UNCHANGED <<modifiedResult, history, isLoading, isStreamingJson, error,
                   successMessage, savedVersions, isRepoFetched,
                   isGithubLoading, generations, commits, localStorage>>

\* handleFetchFromGithub up to its await of fetchRepoContents (the form is
\* shown while no repository is connected)
FetchStart ==
    /\ ~isGithubLoading
    /\ ~isRepoFetched
    /\ isGithubLoading' = TRUE
    /\ modifiedResult' = <<>>
    /\ history' = <<>>
    /\ error' = ""
    /\ successMessage' = ""
    /\ files' = <<>>
    /\ lastHandler' = "handleFetchFromGithub"
    /\ UNCHANGED <<patchVars, commitVars, tree, uploads, lastSave>>
    /\ UNCHANGED <<isLoading, isStreamingJson, savedVersions, isRepoFetched,
                   generations, commits, localStorage>>

\* handleFetchFromGithub after fetchRepoContents returned the files (ok) or
\* threw
FetchEnd(ok, fetchedFiles) ==
    /\ isGithubLoading
    /\ IF ok
       THEN files' = fetchedFiles /\ isRepoFetched' = TRUE
       ELSE UNCHANGED <<files, isRepoFetched>>
    /\ isGithubLoading' = FALSE
    /\ lastHandler' = "fetch"
    /\ UNCHANGED <<patchVars, commitVars, tree, uploads, lastSave>>
    /\ UNCHANGED <<modifiedResult, history, isLoading, isStreamingJson, error,
                   successMessage, savedVersions, generations, commits,
                   localStorage>>

\* handleDisconnectFromGithub
handleDisconnectFromGithub ==
    /\ isRepoFetched
    /\ isRepoFetched' = FALSE
    /\ files' = <<>>
    /\ modifiedResult' = <<>>
    /\ history' = <<>>
    /\ error' = ""
    /\ successMessage' = ""
    /\ lastHandler' = "handleDisconnectFromGithub"
    /\ UNCHANGED <<patchVars, commitVars, tree, uploads, lastSave>>
    /\ UNCHANGED <<isLoading, isStreamingJson, savedVersions, isGithubLoading,
                   generations, commits, localStorage>>

\* handleClearHistory, confirmed (the button is shown with the versions)
handleClearHistory ==
    /\ ~isRepoFetched
    /\ savedVersions # <<>>
    /\ localStorage' = clearAllVersions(localStorage)
    /\ savedVersions' = getSavedVersions(localStorage')
    /\ lastHandler' = "handleClearHistory"
    /\ UNCHANGED <<patchVars, commitVars, tree, uploads, lastSave>>
    /\ UNCHANGED <<files, modifiedResult, history, isLoading, isStreamingJson,
                   error, successMessage, isRepoFetched, isGithubLoading,
                   generations, commits>>

NextApp ==
    \/ GenerateNoSelection
    \/ GenerateStart
    \/ \E g \in generations : \E parsed \in BOOLEAN : \E p \in AppPlans :
          StreamEnd(g, parsed, p)
    \/ \E fault \in SaveFaults : ApproveLocal(fault)
    \/ ApproveGithubStart
    \/ \E c \in commits : \E ok \in BOOLEAN : CommitEnd(c, ok)
    \/ handleUndoClick
    \/ \E version \in Range(savedVersions) : handleLoadVersion(version)
    \/ \E content \in AppContents : handleFileContentChange(JsName, content)
    \/ \E newFiles \in {<<AppFile(<<"a">>)>>} : UploadStart(newFiles)
    \/ \E u \in uploads : UploadEnd(u)
    \/ handleClearFile(JsName)
    \/ handleClearAllFiles
    \/ FetchStart
    \/ \E ok \in BOOLEAN : \E fetchedFiles \in {<<>>, <<AppFile(<<"a">>)>>} :
          FetchEnd(ok, fetchedFiles)
    \/ handleDisconnectFromGithub
    \/ handleClearHistory

InitApp ==
    /\ AppInit
    /\ pc = "ready"
    /\ originalFiles = <<>>
    /\ plan = EmptyPlan
    /\ finalFiles = <<>>

SpecApp == InitApp /\ [][NextApp]_vars

\* The handlers of a generation attempt, before and after its await
GenerationHandlers == {"handleGenerateOrModify", "stream"}

\* C7: no step of a generation attempt (an early return, the start, or the
\* end of the stream with a failure, an empty plan or a staged result)
\* changes the working files or the stored versions; a local approve makes
\* the working files the staged files in that one step, and in GitHub mode
\* the working files change only when the commit returns, to the files that
\* were staged at the approve.
C7_GenerationLeavesFiles ==
    [][/\ lastHandler' \in GenerationHandlers
            => files' = files /\ localStorage' = localStorage
       /\ (lastHandler' = "handleApproveClick" /\ ~isRepoFetched)
            => modifiedResult # <<>>
               /\ files' = modifiedResult[1].modifiedFiles
       /\ (lastHandler' = "handleApproveClick" /\ isRepoFetched)
            => modifiedResult # <<>> /\ files' = files
                 /\ commits' = commits
                        \cup {[modifiedFiles |-> modifiedResult[1].modifiedFiles]}
       /\ lastHandler' = "commit"
            => files' = files \/ \E c \in commits : files' = c.modifiedFiles
      ]_vars

\* A staged result that differs from the working files was approved in local
\* mode and is installed, with the replaced files saved as a version
C7_Witness ==
    /\ lastHandler = "handleApproveClick"
    /\ ~isRepoFetched
    /\ files = <<AppFile(<<"b">>)>>
    /\ modifiedResult = <<>>
    /\ savedVersions # <<>>
    /\ savedVersions[1].files = <<AppFile(<<"a">>)>>

\* The step in which a generation attempt that began in the step before ends
\* without a result: the stream or the parse failed, or the plan was empty
AttemptFails(g) ==
    /\ lastHandler = "handleGenerateOrModify"
    /\ isLoading
    /\ g \in generations
    /\ lastHandler' = "stream"
    /\ error' # ""

\* C12: when a generation attempt fails or yields an empty plan, the
\* Session History is again what it was when the attempt began and no result
\* is staged.
C12_FailedAttemptRestoresHistory ==
    [][\A g \in generations :
          AttemptFails(g) =>
              history' = g.historyBefore /\ modifiedResult' = <<>>]_vars

\* The step in which a generation attempt that began in the step before
\* stages a result
AttemptStages(g) ==
    /\ lastHandler = "handleGenerateOrModify"
    /\ isLoading
    /\ g \in generations
    /\ lastHandler' = "stream"
    /\ modifiedResult' # <<>>

\* C13: a generation attempt that began with a non-empty File Set and
\* staged a result leaves its snapshot in front of the snapshots the Session
\* History held when it began, the oldest beyond MAX_HISTORY_LENGTH dropped.
C13_HistoryHoldsEveryAttempt ==
    [][\A g \in generations :
          (AttemptStages(g) /\ g.files # <<>>) =>
              history' = PushHistory(g.historyBefore, g.files)]_vars

HistoryAtMostOne == Len(history) <= 1

\* C17: an approve in local mode whose save succeeds adds one version to
\* the store, holding the working files as they were before the approve,
\* and changes no other version; no other handler but handleClearHistory
\* adds, changes or removes a version.
C17_VersionPerApprove ==
    [][LET before == getSavedVersions(localStorage)
           after == getSavedVersions(localStorage')
       IN  /\ (lastHandler' = "handleApproveClick" /\ ~isRepoFetched
                    /\ lastSave' # -1)
                => after = before \o <<[versionNumber |-> lastSave',
                                        files |-> files]>>
           /\ (lastHandler' \notin {"handleApproveClick", "handleClearHistory"}
                    \/ isRepoFetched)
                => after = before
      ]_vars

\* C18: a local approve whose save returns the failure value still installs
\* the staged files, and does not tell the user that a new version was saved.
C18_SaveFailureReported ==
    [][(lastHandler' = "handleApproveClick" /\ ~isRepoFetched
            /\ lastSave' = -1) =>
          /\ modifiedResult # <<>>
          /\ files' = modifiedResult[1].modifiedFiles
          /\ successMessage'
                # "Changes approved and saved as a new local version."
      ]_vars

-----------------------------------------------------------------------------
(* commitChangesToRepo: one call, request by request.  Every request either *)
(* succeeds or fails; the blob requests of Promise.all are in flight        *)
(* together and answer in any order.  An object's sha stands for what the   *)
(* object holds.                                                            *)

\* The part of a data URL between its first and its second comma:
\* content.split(',')[1]
RECURSIVE UpToComma(_)
UpToComma(s) ==
    IF s = <<>> \/ s[1] = "," THEN <<>> ELSE <<s[1]>> \o UpToComma(Tail(s))

SplitComma1(content) ==
    LET i == IndexOf(content, <<",">>)
    IN  UpToComma(SubSeq(content, i + 2, Len(content)))

\* The body of the blob request made for a file
BlobBody(file) ==
    IF StartsWith(file.type, <<"image/">>) /\ StartsWith(file.content, <<"data:">>)
    THEN [content |-> SplitComma1(file.content), encoding |-> "base64"]
    ELSE [content |-> file.content, encoding |-> "utf-8"]

BlobSha(file) == <<"blob", BlobBody(file)>>

\* The tree item returned for a file whose blob was created
TreeItem(file) ==
    [path |-> file.name, mode |-> "100644", type |-> "blob",
     sha |-> BlobSha(file)]

TreeSha(treeItems) == <<"tree", treeItems>>

CommitSha(treeSha, parentCommitSha) ==
    <<"commit", [tree |-> treeSha, parents |-> <<parentCommitSha>>]>>

\* The call as it begins, with its arguments
CallOf(modifiedFiles) ==
    [pc |-> "getRepoDetails", modifiedFiles |-> modifiedFiles,
     parentCommitSha |-> "", pending |-> {}, created |-> {},
     tree |-> <<>>, commit |-> <<>>, errors |-> 0, failedAt |-> ""]

\* The call throws out of the step it is in
Throw(call, step) ==
    [call EXCEPT !.pc = "thrown", !.errors = @ + 1, !.failedAt = step]

\* The treeItems Promise.all resolves to: one item per file, in file order
TreeItems(call) ==
    [i \in 1..Len(call.modifiedFiles) |-> TreeItem(call.modifiedFiles[i])]

GetRepoDetails(ok) ==
    /\ commitCall.pc = "getRepoDetails"
    /\ commitCall' = IF ok THEN [commitCall EXCEPT !.pc = "getRef"]
                          ELSE Throw(commitCall, "getRepoDetails")
    /\ UNCHANGED <<github, tree, patchVars, sessionVars, savedVersions,
                   localStorage, lastSave, lastHandler>>

\* 1. the branch reference is read; then every blob request is sent
GetRef(ok) ==
    /\ commitCall.pc = "getRef"
    /\ commitCall' =
          IF ok
          THEN [commitCall EXCEPT
                  !.parentCommitSha = github.ref,
                  !.pending = 1..Len(commitCall.modifiedFiles),
                  !.pc = IF commitCall.modifiedFiles = <<>>
                         THEN "tree" ELSE "blobs"]
          ELSE Throw(commitCall, "getRef")
    /\ UNCHANGED <<github, tree, patchVars, sessionVars, savedVersions,
                   localStorage, lastSave, lastHandler>>

\* 2. one blob request is answered.  After Promise.all rejected, the other
\* requests are still answered and their results dropped.
CreateBlob(i, ok) ==
    /\ commitCall.pc \in {"blobs", "thrown"}
    /\ i \in commitCall.pending
    /\ LET file == commitCall.modifiedFiles[i]
           answered == [commitCall EXCEPT !.pending = @ \ {i}]
       IN  IF ok
           THEN /\ github' = [github EXCEPT !.blobs = @ \cup {BlobSha(file)}]
                /\ commitCall' =
                      [answered EXCEPT
                         !.created = @ \cup {i},
                         !.pc = IF commitCall.pc = "blobs"
                                   /\ answered.pending = {}
                                THEN "tree" ELSE @]
           ELSE /\ github' = github
                /\ commitCall' = IF commitCall.pc = "blobs"
                                 THEN Throw(answered, "blobs")
                                 ELSE answered
    /\ UNCHANGED <<tree, patchVars, sessionVars, savedVersions, localStorage,
                   lastSave, lastHandler>>

\* 3. the tree of all the items
CreateTree(ok) ==
    /\ commitCall.pc = "tree"
    /\ IF ok
       THEN /\ github' = [github EXCEPT
                            !.trees = @ \cup {TreeSha(TreeItems(commitCall))}]
            /\ commitCall' = [commitCall EXCEPT
                                !.tree = TreeSha(TreeItems(commitCall)),
                                !.pc = "commit"]
       ELSE /\ github' = github
            /\ commitCall' = Throw(commitCall, "tree")
    /\ UNCHANGED <<tree, patchVars, sessionVars, savedVersions, localStorage,
                   lastSave, lastHandler>>

\* CreateCommit moving the branch as it creates the commit
CreateCommitMovesRef(ok) ==
    /\ commitCall.pc = "commit"
    /\ LET sha == CommitSha(commitCall.tree, commitCall.parentCommitSha)
       IN  /\ github' = [github EXCEPT !.commits = @ \cup {sha}, !.ref = sha]
           /\ commitCall' = IF ok
                            THEN [commitCall EXCEPT !.commit = sha,
                                                    !.pc = "updateRef"]
                            ELSE Throw(commitCall, "commit")
    /\ UNCHANGED <<tree, patchVars, sessionVars, savedVersions, localStorage,
                   lastSave, lastHandler>>

\* 4. the commit on the tree, its parent the commit read in step 1
CreateCommit(ok) ==
    /\ commitCall.pc = "commit"
    /\ LET sha == CommitSha(commitCall.tree, commitCall.parentCommitSha)
       IN  IF ok
           THEN /\ github' = [github EXCEPT !.commits = @ \cup {sha}]
                /\ commitCall' = [commitCall EXCEPT !.commit = sha,
                                                    !.pc = "updateRef"]
           ELSE /\ github' = github
                /\ commitCall' = Throw(commitCall, "commit")
    /\ UNCHANGED <<tree, patchVars, sessionVars, savedVersions, localStorage,
                   lastSave, lastHandler>>

\* 5. the branch reference is set to the new commit
UpdateRef(ok) ==
    /\ commitCall.pc = "updateRef"
    /\ IF ok
       THEN /\ github' = [github EXCEPT !.ref = commitCall.commit]
            /\ commitCall' = [commitCall EXCEPT !.pc = "returned"]
       ELSE /\ github' = github
            /\ commitCall' = Throw(commitCall, "updateRef")
    /\ UNCHANGED <<tree, patchVars, sessionVars, savedVersions, localStorage,
                   lastSave, lastHandler>>

InitCommit ==
    /\ StoreIdle
    /\ files = <<>>
    /\ modifiedResult = <<>>
    /\ history = <<>>
    /\ isLoading = FALSE
    /\ isStreamingJson = FALSE
    /\ error = ""
    /\ successMessage = ""
    /\ savedVersions = <<>>
    /\ isRepoFetched = FALSE
    /\ isGithubLoading = FALSE
    /\ generations = {}
    /\ commits = {}
    /\ uploads = {}
    /\ localStorage = EmptyStorage
    /\ lastSave = 0
    /\ lastHandler = ""
    /\ github = InitialRepository
    /\ tree = NotRendered
    /\ \E modifiedFiles \in FileSets : commitCall = CallOf(modifiedFiles)

NextCommit ==
    \/ \E ok \in BOOLEAN : GetRepoDetails(ok)
    \/ \E ok \in BOOLEAN : GetRef(ok)
    \/ \E i \in 1..MaxFiles, ok \in BOOLEAN : CreateBlob(i, ok)
    \/ \E ok \in BOOLEAN : CreateTree(ok)
    \/ \E ok \in BOOLEAN : CreateCommit(ok)
    \/ \E ok \in BOOLEAN : UpdateRef(ok)

SpecCommit == InitCommit /\ [][NextCommit]_vars

\* Every blob, the tree and the commit of the call are in the repository
AllCreated(call) ==
    /\ \A i \in 1..Len(call.modifiedFiles) :
          BlobSha(call.modifiedFiles[i]) \in github.blobs
    /\ call.created = 1..Len(call.modifiedFiles)
    /\ call.tree \in github.trees
    /\ call.commit \in github.commits

\* C20: the branch reference changes only in the last step of the call, when
\* every blob, the tree and the commit have been created, and then the call
\* returns; a call that failed in an earlier step raised one error and the
\* branch reference still points at the commit it pointed at before the call.
C20_RefUpdatedLast ==
    [][/\ github'.ref # github.ref =>
            /\ commitCall.pc = "updateRef"
            /\ AllCreated(commitCall)
            /\ github'.ref = commitCall.commit
            /\ commitCall'.pc = "returned"
       /\ commitCall'.pc = "thrown" =>
            /\ commitCall'.errors = 1
            /\ github'.ref = InitialRef
      ]_vars

\* The call threw at the commit request, after two blobs and the tree had
\* been created
C20_Witness ==
    /\ commitCall.pc = "thrown"
    /\ commitCall.failedAt = "commit"
    /\ Len(commitCall.modifiedFiles) = 2
    /\ commitCall.tree \in github.trees
    /\ github.ref = InitialRef

\* C21: while a generation is in flight no generation, approve or undo
\* starts, so at most one generation is in flight; and no generation starts
\* while a GitHub commit is running.
C21_OneGenerationInFlight ==
    [][/\ generations # {} =>
            lastHandler' \notin {"handleGenerateOrModify",
                                 "handleApproveClick", "handleUndoClick"}
       /\ commits # {} => lastHandler' # "handleGenerateOrModify"
       /\ Cardinality(generations') <= 1
       /\ ~(generations' # {} /\ commits' # {})
      ]_vars

\* A generation is in flight and another handler has run since it started
C21_Witness ==
    /\ Cardinality(generations) = 1
    /\ isLoading
    /\ lastHandler = "handleFileContentChange"

-----------------------------------------------------------------------------
(* buildFileTree.  The nested object it returns is kept flat: a node is     *)
(* filed under the sequence of parts that leads to it from the root, and    *)
(* the children of a directory node are the nodes filed one part below it.  *)

MaxTreeFiles == 2   \* most records of an input of buildFileTree

\* Property names every object inherits from Object.prototype
ObjectPrototypeKeys == {<<"constructor">>}

TreeNames ==
    {<<"a">>, <<"b">>, <<"a", "/", "a">>, <<"a", "/", "b">>,
     <<"constructor">>, <<"constructor", "/", "a">>}

TreeFileRecords ==
    {[name |-> n, content |-> c, type |-> TextPlain] :
        n \in TreeNames, c \in {<<"x">>, <<"y">>}}

TreeInputs == SeqsUpTo(TreeFileRecords, MaxTreeFiles)

\* The collation order of the characters of the names
CharRank(c) ==
    CASE c = "/" -> 0 [] c = "a" -> 1 [] c = "b" -> 2 [] OTHER -> 3

\* String.prototype.localeCompare: negative, zero or positive
RECURSIVE LocaleCompare(_, _)
LocaleCompare(s, t) ==
    IF s = <<>> THEN (IF t = <<>> THEN 0 ELSE -1)
    ELSE IF t = <<>> THEN 1
    ELSE IF CharRank(s[1]) < CharRank(t[1]) THEN -1
    ELSE IF CharRank(s[1]) > CharRank(t[1]) THEN 1
    ELSE LocaleCompare(Tail(s), Tail(t))

\* Array.prototype.sort by name; the sort is stable
RECURSIVE InsertByName(_, _)
InsertByName(sorted, file) ==
    IF sorted = <<>> THEN <<file>>
    ELSE IF LocaleCompare(file.name, sorted[1].name) < 0
         THEN <<file>> \o sorted
         ELSE <<sorted[1]>> \o InsertByName(Tail(sorted), file)

RECURSIVE SortByName(_)
SortByName(fileSet) ==
    IF fileSet = <<>> THEN <<>>
    ELSE InsertByName(SortByName(SubSeq(fileSet, 1, Len(fileSet) - 1)),
                      fileSet[Len(fileSet)])

\* name.split('/')
RECURSIVE SplitSlash(_)
SplitSlash(s) ==
    IF \A i \in 1..Len(s) : s[i] # "/" THEN <<s>>
    ELSE LET i == CHOOSE k \in 1..Len(s) :
                    s[k] = "/" /\ \A j \in 1..(k - 1) : s[j] # "/"
         IN  <<SubSeq(s, 1, i - 1)>> \o SplitSlash(SubSeq(s, i + 1, Len(s)))

\* currentPath after the part of index i
RECURSIVE PathUpTo(_, _)
PathUpTo(parts, i) ==
    IF i = 1 THEN parts[1]
    ELSE PathUpTo(parts, i - 1) \o <<"/">> \o parts[i]

\* The node made for the part of index i
NewNode(file, parts, i) ==
    [name |-> parts[i], path |-> PathUpTo(parts, i),
     isFile |-> i = Len(parts),
     file |-> IF i = Len(parts) THEN <<file>> ELSE <<>>]

\* The inner parts.forEach from index i on.  level is where currentLevel
\* is filed; defined is FALSE when currentLevel is undefined, and reading a
\* property of it then throws.
RECURSIVE InsertParts(_, _, _, _, _, _)
InsertParts(t, file, parts, i, level, defined) ==
    IF i > Len(parts) \/ t.threw THEN t
    ELSE IF ~defined THEN [t EXCEPT !.threw = TRUE]
    ELSE LET part == parts[i]
             key == Append(level, part)
             isFile == i = Len(parts)
             found == part \in ObjectPrototypeKeys \/ key \in DOMAIN t.nodes
             nodes == IF found THEN t.nodes
                      ELSE t.nodes @@ (key :> NewNode(file, parts, i))
             hasChildren == key \in DOMAIN nodes /\ ~nodes[key].isFile
         IN  InsertParts([t EXCEPT !.nodes = nodes], file, parts, i + 1,
                         IF isFile THEN level ELSE key,
                         isFile \/ hasChildren)

\* The outer forEach over the sorted files
RECURSIVE InsertFiles(_, _)
InsertFiles(t, sortedFiles) ==
    IF sortedFiles = <<>> THEN t
    ELSE InsertFiles(InsertParts(t, sortedFiles[1],
                                 SplitSlash(sortedFiles[1].name), 1, <<>>,
                                 TRUE),
                     Tail(sortedFiles))

buildFileTree(fileSet) ==
    InsertFiles([rendered |-> TRUE, threw |-> FALSE, nodes |-> <<>>],
                SortByName(fileSet))

\* The FileTree component renders the files it was given
TreeRender ==
    /\ ~tree.rendered
    /\ tree' = buildFileTree(files)
    /\ UNCHANGED <<patchVars, commitVars, modifiedResult, history, isLoading,
                   isStreamingJson, error, successMessage, savedVersions,
                   isRepoFetched, isGithubLoading, generations, commits,
                   uploads, localStorage, lastSave, lastHandler, files>>

InitTree ==
    /\ StoreIdle
    /\ files \in TreeInputs
    /\ modifiedResult = <<>>
    /\ history = <<>>
    /\ isLoading = FALSE
    /\ isStreamingJson = FALSE
    /\ error = ""
    /\ successMessage = ""
    /\ savedVersions = <<>>
    /\ isRepoFetched = FALSE
    /\ isGithubLoading = FALSE
    /\ generations = {}
    /\ commits = {}
    /\ uploads = {}
    /\ localStorage = EmptyStorage
    /\ lastSave = 0
    /\ lastHandler = ""
    /\ github = InitialRepository
    /\ commitCall = NoCall
    /\ tree = NotRendered

NextTree == TreeRender

SpecTree == InitTree /\ [][NextTree]_vars

\* The leaves of the rendered tree whose path is the name
LeavesAt(name) ==
    {k \in DOMAIN tree.nodes :
        tree.nodes[k].isFile /\ tree.nodes[k].path = name}

\* C22: when two records of the input have the same full path, the tree has
\* a single leaf for that path and it carries the later record.
C22_LastDuplicateWins ==
    (tree.rendered /\ ~tree.threw) =>
        \A i, j \in 1..Len(files) :
            (i < j /\ files[i].name = files[j].name) =>
                /\ Cardinality(LeavesAt(files[j].name)) = 1
                /\ \A k \in LeavesAt(files[j].name) :
                      tree.nodes[k].file = <<files[j]>>

\* C29: for a File Set with unique names buildFileTree returns normally and
\* every file has exactly one leaf, whose path is the file's name, which
\* carries the file's record and lies under one directory node per proper
\* prefix of the path.
C29_OneLeafPerFile ==
    (/\ tree.rendered
     /\ \A i, j \in 1..Len(files) : files[i].name = files[j].name => i = j)
    =>
        /\ ~tree.threw
        /\ \A i \in 1..Len(files) :
              LET parts == SplitSlash(files[i].name)
              IN  /\ LeavesAt(files[i].name) = {parts}
                  /\ tree.nodes[parts].file = <<files[i]>>
                  /\ \A n \in 1..(Len(parts) - 1) :
                        /\ SubSeq(parts, 1, n) \in DOMAIN tree.nodes
                        /\ ~tree.nodes[SubSeq(parts, 1, n)].isFile

\* C23: whenever a result is staged, its files are what applyChanges makes
\* of the current working files and the staged plan.
C23_StagedFromWorkingFiles ==
    modifiedResult # <<>> =>
        modifiedResult[1].modifiedFiles
            = applyChanges(files, modifiedResult[1].plan)

-----------------------------------------------------------------------------
(* Fetching a repository and committing to it.  A blob's bytes are written  *)
(* as a sequence: an ASCII byte as its character, any other byte in hex.    *)
(* A blob of the repository is named by the request body that creates it.   *)

MaxRepoFiles == 2   \* most files of the fetched commit

\* The bytes of the blobs of the fetched commit: empty, 'a', and one byte
\* that is not UTF-8
RepoBytes == {<<>>, <<"a">>, <<"ff">>}

\* btoa / atob on the byte sequences the model uses
Base64Pairs ==
    {<<(<<>>), (<<>>)>>,
     <<(<<"a">>), <<"Y", "Q", "=", "=">> >>,
     <<(<<"b">>), <<"Y", "g", "=", "=">> >>,
     <<(<<"ff">>), <<"/", "w", "=", "=">> >>}

Base64Encode(bytes) == (CHOOSE p \in Base64Pairs : p[1] = bytes)[2]

\* What the decoding gives; text that is not base64 is refused
Base64Decode(text) ==
    IF \E p \in Base64Pairs : p[2] = text
    THEN (CHOOSE p \in Base64Pairs : p[2] = text)[1]
    ELSE <<"not base64">>

\* new TextDecoder().decode(bytes): a byte that is not UTF-8 becomes U+FFFD
TextDecode(bytes) ==
    [i \in 1..Len(bytes) |-> IF bytes[i] = "ff" THEN "U+FFFD" ELSE bytes[i]]

\* The UTF-8 bytes of a string
RECURSIVE Utf8Encode(_)
Utf8Encode(s) ==
    IF s = <<>> THEN <<>>
    ELSE (IF s[1] = "U+FFFD" THEN <<"ef", "bf", "bd">> ELSE <<s[1]>>)
         \o Utf8Encode(Tail(s))

decodeBase64(encoded) == TextDecode(Base64Decode(encoded))

\* The bytes of the blob a request body creates
BlobBytes(body) ==
    IF body.encoding = "base64" THEN Base64Decode(body.content)
    ELSE Utf8Encode(body.content)

\* An entry of the tree of the fetched commit, as git/trees lists it
RepoItem(path, bytes) ==
    [path |-> path, mode |-> "100644", type |-> "blob",
     sha |-> <<"blob", [content |-> Base64Encode(bytes),
                        encoding |-> "base64"]>>]

ItemBytes(item) == BlobBytes(item.sha[2])

RepoPaths == {JsName, PngName, IcoName}

RepoTrees ==
    {t \in SeqsUpTo({RepoItem(p, b) : p \in RepoPaths, b \in RepoBytes},
                    MaxRepoFiles) :
        \A i, j \in 1..Len(t) : t[i].path = t[j].path => i = j}

\* The repository whose branch points at a commit with the tree items
RepositoryOf(items) ==
    [ref |-> CommitSha(TreeSha(items), "parent"),
     blobs |-> {items[i].sha : i \in 1..Len(items)},
     trees |-> {TreeSha(items)},
     commits |-> {CommitSha(TreeSha(items), "parent")}]

\* The tree items of the commit a branch reference points at
TreeOf(ref) == ref[2].tree[2]

\* fetchRepoContents when its first requests succeed: failed holds the
\* indices of the tree entries whose blob request is not ok
RECURSIVE FetchItems(_, _, _)
FetchItems(items, i, failed) ==
    IF i > Len(items) THEN <<>>
    ELSE (IF items[i].type = "blob" /\ Len(ItemBytes(items[i])) > 0
             /\ i \notin failed
          THEN <<FetchedFile(items[i].path,
                             Base64Encode(ItemBytes(items[i])),
                             decodeBase64(Base64Encode(ItemBytes(items[i]))))>>
          ELSE <<>>)
         \o FetchItems(items, i + 1, failed)

fetchRepoContents(items, failed) == FetchItems(items, 1, failed)

RoundTripPlans ==
    {[EmptyPlan EXCEPT !.deleteFiles = <<JsName>>],
     [EmptyPlan EXCEPT !.newFiles = <<[fileName |-> TsName, code |-> <<"a">>]>>],
     [EmptyPlan EXCEPT !.modify =
         <<[fileName |-> JsName, before |-> <<>>, codeToDelete |-> <<"a">>,
            newCode |-> <<"b">>, after |-> <<>>]>>]}

\* handleFetchFromGithub: the repository is fetched into the working files
RoundTripFetch(failed) ==
    /\ ~isRepoFetched
    /\ failed \subseteq 1..Len(TreeOf(github.ref))
    /\ files' = fetchRepoContents(TreeOf(github.ref), failed)
    /\ isRepoFetched' = TRUE
    /\ lastHandler' = "fetch"
    /\ UNCHANGED <<patchVars, commitVars, tree, modifiedResult, history,
                   isLoading, isStreamingJson, error, successMessage,
                   savedVersions, isGithubLoading, generations, commits,
                   uploads, localStorage, lastSave>>

\* handleGenerateOrModify: a plan with changes is applied and staged
RoundTripStage(p) ==
    /\ isRepoFetched
    /\ modifiedResult = <<>>
    /\ modifiedResult' =
          <<[modifiedFiles |-> applyChanges(files, p), plan |-> p]>>
    /\ lastHandler' = "stream"
    /\ UNCHANGED <<patchVars, commitVars, tree, files, history, isLoading,
                   isStreamingJson, error, successMessage, savedVersions,
                   isRepoFetched, isGithubLoading, generations, commits,
                   uploads, localStorage, lastSave>>

\* handleApproveClick in GitHub mode calls commitChangesToRepo
RoundTripApprove ==
    /\ isRepoFetched
    /\ modifiedResult # <<>>
    /\ commitCall = NoCall
    /\ commitCall' = CallOf(modifiedResult[1].modifiedFiles)
    /\ lastHandler' = "handleApproveClick"
    /\ UNCHANGED <<patchVars, github, tree, files, modifiedResult, history,
                   isLoading, isStreamingJson, error, successMessage,
                   savedVersions, isRepoFetched, isGithubLoading, generations,
                   commits, uploads, localStorage, lastSave>>

InitRoundTrip ==
    /\ StoreIdle
    /\ files = <<>>
    /\ modifiedResult = <<>>
    /\ history = <<>>
    /\ isLoading = FALSE
    /\ isStreamingJson = FALSE
    /\ error = ""
    /\ successMessage = ""
    /\ savedVersions = <<>>
    /\ isRepoFetched = FALSE
    /\ isGithubLoading = FALSE
    /\ generations = {}
    /\ commits = {}
    /\ uploads = {}
    /\ localStorage = EmptyStorage
    /\ lastSave = 0
    /\ lastHandler = ""
    /\ \E items \in RepoTrees : github = RepositoryOf(items)
    /\ commitCall = NoCall
    /\ tree = NotRendered

NextRoundTrip ==
    \/ \E failed \in SUBSET (1..MaxRepoFiles) : RoundTripFetch(failed)
    \/ \E p \in RoundTripPlans : RoundTripStage(p)
    \/ RoundTripApprove
    \/ \E ok \in BOOLEAN : GetRepoDetails(ok)
    \/ \E ok \in BOOLEAN : GetRef(ok)
    \/ \E i \in 1..(MaxRepoFiles + 1), ok \in BOOLEAN : CreateBlob(i, ok)
    \/ \E ok \in BOOLEAN : CreateTree(ok)
    \/ \E ok \in BOOLEAN : CreateCommit(ok)
    \/ \E ok \in BOOLEAN : UpdateRef(ok)

SpecRoundTrip == InitRoundTrip /\ [][NextRoundTrip]_vars

\* The paths of a commit's tree
PathsOf(ref) == {TreeOf(ref)[i].path : i \in 1..Len(TreeOf(ref))}

\* The bytes the commit's tree holds for a path
BytesAt(ref, path) ==
    ItemBytes(TreeOf(ref)[CHOOSE i \in 1..Len(TreeOf(ref)) :
                            TreeOf(ref)[i].path = path])

\* C24: after a fetch and a commit of a plan's result, the new tree holds
\* every file of the fetched commit that the plan does not delete.
C24_CommitKeepsFetchedFiles ==
    (commitCall.pc = "returned") =>
        \A path \in PathsOf(commitCall.parentCommitSha) :
            path \notin Range(modifiedResult[1].plan.deleteFiles)
                => path \in PathsOf(github.ref)

\* C27: a record whose content is a data URI is sent as a base64 blob of the
\* payload and any other record as a UTF-8 blob of its content; and a record
\* committed as it was fetched leaves the file's bytes as they were.
C27_BlobEncoding ==
    (commitCall.pc = "returned") =>
        /\ \A i \in 1..Len(commitCall.modifiedFiles) :
              LET file == commitCall.modifiedFiles[i]
              IN  BlobBody(file) =
                    IF IsDataUrl(file.content)
                    THEN [content |-> SplitComma1(file.content),
                          encoding |-> "base64"]
                    ELSE [content |-> file.content, encoding |-> "utf-8"]
        /\ \A i \in 1..Len(commitCall.modifiedFiles) :
              LET file == commitCall.modifiedFiles[i]
              IN  file \in Range(files) =>
                    BytesAt(github.ref, file.name)
                        = BytesAt(commitCall.parentCommitSha, file.name)

\* C25: a local approve keeps in Session History the snapshot taken before
\* the approved change, so that an undo performed next restores the working
\* files that were current before the change.
C25_ApproveKeepsSnapshot ==
    [][(lastHandler' = "handleApproveClick" /\ ~isRepoFetched
            /\ history # <<>>) =>
          /\ history' # <<>>
          /\ Head(history') = Head(history)
      ]_vars

\* C26: when the anchored target is not found, the fallback counts every
\* position of the content at which a non-empty codeToDelete occurs,
\* overlapping positions included; with two overlapping positions the
\* operation is skipped and the content is unchanged.
C26_OverlapsCounted ==
    (/\ pc = "done"
     /\ ~Includes(AnchorContent, FullContextString(AnchorOp))
     /\ AnchorOp.codeToDelete # <<>>)
        => /\ Occurrences(AnchorContent, AnchorOp.codeToDelete)
                = Cardinality(Positions(AnchorContent, AnchorOp.codeToDelete))
           /\ (\E i, j \in Positions(AnchorContent, AnchorOp.codeToDelete) :
                    i < j /\ j < i + Len(AnchorOp.codeToDelete))
                => AnchorResult = AnchorContent

\* C28: when the commit of a GitHub approve fails, the working files, the
\* staged result and Session History are left as they are, the loading flag
\* is cleared and an error is shown, so that the staged result can be
\* approved again; the working files become the staged files only when the
\* commit has returned, and not when the approve starts.
C28_FailedCommitKeepsStaged ==
    [][/\ (lastHandler' = "commit" /\ error' = "GitHub Commit Failed") =>
            /\ files' = files
            /\ modifiedResult' = modifiedResult
            /\ history' = history
            /\ ~isLoading'
            /\ lastHandler = "handleApproveClick" =>
                  /\ modifiedResult' # <<>>
                  /\ \E c \in commits :
                        modifiedResult'[1].modifiedFiles = c.modifiedFiles
                  /\ isRepoFetched'
       /\ (lastHandler' = "commit" /\ error' # "GitHub Commit Failed") =>
            \E c \in commits : files' = c.modifiedFiles
       /\ (lastHandler' = "handleApproveClick" /\ isRepoFetched) =>
            /\ files' = files
            /\ modifiedResult' = modifiedResult
      ]_vars

\* The commit of an approve has failed and the result is still staged
C28_Witness ==
    /\ lastHandler = "commit"
    /\ error = "GitHub Commit Failed"
    /\ modifiedResult # <<>>
    /\ modifiedResult[1].modifiedFiles # files
    /\ isRepoFetched
    /\ ~isLoading

-----------------------------------------------------------------------------
(* The App handlers with every stream coming to its end: the for-await loop *)
(* of an attempt is resumed once its stream has ended or failed.            *)

StreamEnds ==
    \E g \in generations : \E parsed \in BOOLEAN : \E p \in AppPlans :
        StreamEnd(g, parsed, p)

SpecAppLive == SpecApp /\ WF_vars(StreamEnds)

====
